---------------------------- MODULE Spec2Model ----------------------------
(***************************************************************************)
(* A model of the quick input controller of                                *)
(* src/vs/workbench/browser/parts/quickinput/quickInput.ts:                *)
(* the legacy InputController path (QuickInputService.show with            *)
(* PickOneController, PickManyController, TextInputController) and the     *)
(* QuickInput path (QuickInputService.pick / input on top of QuickPick and *)
(* InputBox), both driving one shared UI.                                  *)
(*                                                                         *)
(* TPromise (winjs) runs the callbacks of a promise synchronously when it  *)
(* settles, and at once when `then` is called on a settled promise; a      *)
(* second resolve or reject of a settled promise is ignored.  Every        *)
(* handler below is therefore one atomic step; the only suspension points  *)
(* are the externally supplied candidate list, the externally supplied     *)
(* validator, the debounce timers and the cancellation tokens.             *)
(***************************************************************************)
EXTENDS Integers, Sequences, FiniteSets, TLC

\* Bounds of the model.
MaxSessions == 2
MaxCalls == 2

\* The texts the user types, and the texts a text input can start with.
Values == {"ab", "abc"}
InitialValues == {"", "ab"}

\* The candidate list of session s has the items <<s, 1>> .. <<s, NumPicks>>.
NumPicks == 2

VARIABLES
    displayed,      \* ui.container.style.display !== 'none'
    controller,     \* QuickInputService.controller (0: not set)
    controller2,    \* QuickInputService.controller2 (0: null)
    ready,          \* QuickInputService.ready
    sess,           \* the sessions started so far, in order of creation
    calls,          \* the calls of validateInput made so far
    inputValue,     \* ui.inputBox.value
    message,        \* ui.message.textContent
    decoration,     \* the severity last given to ui.inputBox.showDecoration
    listOwner,      \* the session whose candidate list ui.list holds (0: empty)
    listFocus,      \* the index of the focused list element (0: none)
    selOrder,       \* the listeners of ui.list.onDidChangeSelection, oldest first
    progress,       \* ui.progressBar: "stopped" or "infinite"
    checked,        \* the indices of the checked elements of ui.list
    listFilter,     \* the query last given to ui.list.filter
    checkAll,       \* ui.checkAll.checked
    count,          \* the number last given to ui.count.setCount
    ignoreFocusOut, \* ui.ignoreFocusOut
    quickOpen,      \* the quick-open widget is shown
    inQuickOpenWidgets, \* the keys of QuickInputService.inQuickOpenWidgets
    inQuickOpenContext, \* the value of the context key 'inQuickOpen'
    \* cloudShell/explorer.ts
    newEntryParentUri,  \* DataSource.newEntryParentUri
    newEntryIsFolder,   \* DataSource.newEntryIsFolder
    entryShown,         \* the tree shows the editable entry
    element,            \* data.element of the editable template
    input,              \* the input of the editable template: value, disabled
    posts,              \* the POST requests made so far
    editors,            \* the names of the entries openEditor was called for
    \* platform/issue/common/issue.ts
    issueLog,           \* the calls the issue service has received, in order
    issueReturned       \* what the last call of the client or channel returned

quickInputVars == <<displayed, controller, controller2, ready, sess, calls, inputValue,
          message, decoration, listOwner, listFocus, selOrder, progress,
          checked, listFilter, checkAll, count, ignoreFocusOut, quickOpen,
          inQuickOpenWidgets, inQuickOpenContext>>

explorerVars == <<newEntryParentUri, newEntryIsFolder, entryShown, element, input,
                  posts, editors>>

issueVars == <<issueLog, issueReturned>>

vars == <<quickInputVars, explorerVars, issueVars>>

\* The state as one record, so that a handler is a function on states.  The
\* field hides is no part of the state: it counts the calls of
\* QuickInputService.hide (each hides the container and refocuses the editor
\* group) that the handler applied to the record has made.  Nor is thrown:
\* it tells that the handler ended by throwing to its caller.  Nor is domFocus:
\* it tells that the handler has called ui.list.domFocus().  Nor is returned:
\* it is "undefined" when the handler has fulfilled with undefined the promise
\* it returns to its caller.  Nor is groupFocus: it counts the calls of
\* editorGroupService.activeGroup.focus() the handler has made.
World ==
    [displayed |-> displayed, controller |-> controller, controller2 |-> controller2,
     ready |-> ready, sess |-> sess, calls |-> calls, inputValue |-> inputValue,
     message |-> message, decoration |-> decoration, listOwner |-> listOwner,
     listFocus |-> listFocus, selOrder |-> selOrder, progress |-> progress,
     checked |-> checked, listFilter |-> listFilter, checkAll |-> checkAll,
     count |-> count, ignoreFocusOut |-> ignoreFocusOut, quickOpen |-> quickOpen,
     inQuickOpenWidgets |-> inQuickOpenWidgets,
     inQuickOpenContext |-> inQuickOpenContext,
     hides |-> 0, thrown |-> FALSE, domFocus |-> FALSE, returned |-> "none",
     groupFocus |-> 0]

Commit(w) ==
    /\ displayed' = w.displayed
    /\ controller' = w.controller
    /\ controller2' = w.controller2
    /\ ready' = w.ready
    /\ sess' = w.sess
    /\ calls' = w.calls
    /\ inputValue' = w.inputValue
    /\ message' = w.message
    /\ decoration' = w.decoration
    /\ listOwner' = w.listOwner
    /\ listFocus' = w.listFocus
    /\ selOrder' = w.selOrder
    /\ progress' = w.progress
    /\ checked' = w.checked
    /\ listFilter' = w.listFilter
    /\ checkAll' = w.checkAll
    /\ count' = w.count
    /\ ignoreFocusOut' = w.ignoreFocusOut
    /\ quickOpen' = w.quickOpen
    /\ inQuickOpenWidgets' = w.inQuickOpenWidgets
    /\ inQuickOpenContext' = w.inQuickOpenContext
    /\ UNCHANGED <<explorerVars, issueVars>>

-----------------------------------------------------------------------------
\* Values a result promise settles with.
Undefined == [k |-> "undefined", s |-> 0, v |-> ""]
Text(v) == [k |-> "text", s |-> 0, v |-> v]
Item(s, i) == [k |-> "item", s |-> s, v |-> IF i = 1 THEN "1" ELSE IF i = 2 THEN "2" ELSE "3"]
Items(s) == [k |-> "items", s |-> s, v |-> ""]
Failure == [k |-> "error", s |-> 0, v |-> ""]

\* The user supplied validator: the message it answers for a value ("" passes).
ValidateInput(v) ==
    IF v = "" THEN "empty" ELSE IF v = "ab" THEN "" ELSE "too long"

\* TextInputController.defaultMessage, and the prompt of an InputBox.
DefaultMessage == "press Enter"
Prompt == ""

NoValue == "<unset>"

\* The subscriptions QuickPick.show / InputBox.show keep in visibleDisposables.
VisibleSubs == {"change", "keydown", "accept", "focus", "selection", "checked"}

\* ui.list.getFocusedElements()[0]
FocusedElement(w) ==
    IF w.listOwner # 0 /\ w.listFocus # 0 THEN Item(w.listOwner, w.listFocus) ELSE Undefined

\* ui.list.getCheckedElements()
CheckedElements(w) == Items(w.listOwner)

\* ui.list.focus('First')
FocusFirst(w) == [w EXCEPT !.listFocus = IF w.listOwner # 0 THEN 1 ELSE 0]

\* ui.list.focus('Last'), ui.list.focus('Next'), ui.list.focus('Previous'):
\* a step past either end goes round to the other end
FocusLast(w) == [w EXCEPT !.listFocus = IF w.listOwner # 0 THEN NumPicks ELSE 0]

FocusNext(w) ==
    [w EXCEPT !.listFocus = IF w.listOwner = 0 THEN 0
                            ELSE IF @ = NumPicks THEN 1 ELSE @ + 1]

FocusPrevious(w) ==
    [w EXCEPT !.listFocus = IF w.listOwner = 0 THEN 0
                            ELSE IF @ <= 1 THEN NumPicks ELSE @ - 1]

\* ui.list.domFocus()
DomFocus(w) == [w EXCEPT !.domFocus = TRUE]

Without(seq, s) == SelectSeq(seq, LAMBDA x : x # s)

\* The list widget (QuickInputList).  Every candidate list has NumPicks
\* elements, labelled "ab" and "abc"; a query shows the elements whose label
\* contains it.
Matches(query, i) == query = "" \/ query = "ab" \/ (query = "abc" /\ i = 2)

VisibleElements(w) ==
    IF w.listOwner = 0 THEN {} ELSE {i \in 1..NumPicks : Matches(w.listFilter, i)}

\* ui.list.getAllVisibleChecked(), ui.list.getCheckedCount()
AllVisibleChecked(w) == VisibleElements(w) # {} /\ VisibleElements(w) \subseteq w.checked
CheckedCount(w) == Cardinality(w.checked)

\* ui.checkAll.checked = ui.list.getAllVisibleChecked();
\* ui.count.setCount(ui.list.getCheckedCount())
SyncChecks(w) == [w EXCEPT !.checkAll = AllVisibleChecked(w), !.count = CheckedCount(w)]

\* The listeners of list.onChangedAllVisibleChecked and
\* list.onChangedCheckedCount, which the list fires when an element's check
\* mark or visibility has changed
OnChangedChecks(w) == [w EXCEPT !.checkAll = AllVisibleChecked(w), !.count = CheckedCount(w)]

\* ui.list.setElements, ui.list.filter, ui.list.setAllVisibleChecked
ListSetElements(w, owner) ==
    [w EXCEPT !.listOwner = owner, !.checked = {}, !.listFilter = ""]

ListFilter(w, query) == OnChangedChecks([w EXCEPT !.listFilter = query])

SetAllVisibleChecked(w, c) ==
    OnChangedChecks([w EXCEPT !.checked = IF c THEN @ \cup VisibleElements(w)
                                               ELSE @ \ VisibleElements(w)])

\* The user toggles the check mark of the i-th element
ItemToggled(w, i) ==
    OnChangedChecks([w EXCEPT !.checked = IF i \in @ THEN @ \ {i} ELSE @ \cup {i}])

\* The check-all box without its change listener
CheckAllChangedUnwired(w) == [w EXCEPT !.checkAll = ~@]

\* The user toggles the check-all box: its change listener
CheckAllChanged(w) == SetAllVisibleChecked([w EXCEPT !.checkAll = ~@], ~w.checkAll)

-----------------------------------------------------------------------------
\* TPromise resolve/reject of a session's result promise together with the
\* callbacks registered on it: a legacy controller disposes itself when its
\* result is fulfilled (result.then(() => this.dispose())), and show()
\* disposes the token subscription on both outcomes.  pick() and input()
\* register nothing on their promise.

\* Settle without show()'s result.then(() => d.dispose(), () => d.dispose()):
\* the token listener of a legacy session outlives its result promise.
SettleKeepingToken(w, s, st, val) ==
    IF w.sess[s].result # "pending" THEN w
    ELSE IF w.sess[s].api = "show"
    THEN [w EXCEPT !.sess[s].result = st,
                   !.sess[s].resultValue = val,
                   !.sess[s].closed = IF st = "fulfilled" THEN TRUE ELSE @,
                   !.sess[s].subs = IF st = "fulfilled" THEN @ \cap {"token"} ELSE @,
                   !.sess[s].debounce = IF st = "fulfilled" THEN NoValue ELSE @,
                   !.sess[s].keyups = IF st = "fulfilled" THEN 0 ELSE @,
                   !.selOrder = IF st = "fulfilled" THEN Without(@, s) ELSE @]
    ELSE [w EXCEPT !.sess[s].result = st, !.sess[s].resultValue = val]

Settle(w, s, st, val) ==
    IF w.sess[s].result # "pending" THEN w
    ELSE IF w.sess[s].api = "show"
    THEN [w EXCEPT !.sess[s].result = st,
                   !.sess[s].resultValue = val,
                   !.sess[s].closed = IF st = "fulfilled" THEN TRUE ELSE @,
                   !.sess[s].subs = IF st = "fulfilled" THEN {} ELSE @ \ {"token"},
                   !.sess[s].debounce = IF st = "fulfilled" THEN NoValue ELSE @,
                   !.sess[s].keyups = IF st = "fulfilled" THEN 0 ELSE @,
                   !.selOrder = IF st = "fulfilled" THEN Without(@, s) ELSE @]
    ELSE [w EXCEPT !.sess[s].result = st, !.sess[s].resultValue = val]

\* QuickInputService.inQuickOpen
InQuickOpen(w, widget, open) ==
    LET widgets == IF open THEN w.inQuickOpenWidgets \cup {widget}
                   ELSE w.inQuickOpenWidgets \ {widget}
    IN  [w EXCEPT !.inQuickOpenWidgets = widgets, !.inQuickOpenContext = (widgets # {})]

\* quickOpenService.close(): the quick-open widget, if shown, is hidden and
\* the service fires onHide, to which the constructor listens
QuickOpenClose(w) ==
    IF w.quickOpen THEN InQuickOpen([w EXCEPT !.quickOpen = FALSE], "quickOpen", FALSE)
    ELSE w

\* QuickInputService.hide, were it to leave the 'quickInput' entry registered
HideKeepingEntry(w) ==
    [w EXCEPT !.displayed = FALSE, !.hides = @ + 1, !.groupFocus = @ + 1]

\* QuickInputService.hide(): focusLost is not given
Hide(w) ==
    [InQuickOpen(w, "quickInput", FALSE) EXCEPT
        !.displayed = FALSE, !.hides = @ + 1, !.groupFocus = @ + 1]

\* QuickInputService.hide(true): the editor group is not focused
HideFocusLost(w) ==
    [InQuickOpen(w, "quickInput", FALSE) EXCEPT !.displayed = FALSE, !.hides = @ + 1]

\* QuickInput.doHide, with the onDidHide handler of pick() / input():
\* dispose(disposables); resolve(undefined)
DoHide(w, s) ==
    LET hidden == [w EXCEPT !.sess[s].visible = FALSE,
                            !.sess[s].subs = @ \ VisibleSubs,
                            !.selOrder = Without(@, s)]
    IN  IF "onDidHide" \in hidden.sess[s].subs
        THEN Settle([hidden EXCEPT !.sess[s].subs = {}, !.sess[s].debounce = NoValue],
                    s, "fulfilled", Undefined)
        ELSE hidden

\* QuickInputService.hide2
Hide2(w) ==
    IF w.controller2 # 0
    THEN DoHide(Hide([w EXCEPT !.controller2 = 0]), w.controller2)
    ELSE w

\* QuickInputService.hide2(true)
Hide2FocusLost(w) ==
    IF w.controller2 # 0
    THEN DoHide(HideFocusLost([w EXCEPT !.controller2 = 0]), w.controller2)
    ELSE w

\* QuickInput.hide
InputHide(w, s) == IF w.sess[s].visible THEN Hide2(w) ELSE w

-----------------------------------------------------------------------------
\* The legacy TextInputController.

\* The callbacks chained on this.validation: "msg" is the one of didChange,
\* "confirm" the one of resolve(true) followed by close()'s then(() => hide()).
RunCallback(w, s, cb, err) ==
    IF cb = "msg"
    THEN [w EXCEPT !.message = IF err # "" THEN err ELSE DefaultMessage,
                   !.decoration = IF err # "" THEN "Error" ELSE "Ignore"]
    ELSE IF err # "" THEN w
    ELSE Hide(Settle(w, s, "fulfilled", Text(w.inputValue)))

\* TextInputController.updatedValidation; validation 0 is TPromise.as(null)
UpdatedValidation(w, s) ==
    IF w.sess[s].validator /\ w.inputValue # w.sess[s].validationValue
    THEN [w EXCEPT !.calls = Append(@, [sid |-> s, value |-> w.inputValue,
                                        st |-> "pending", cbs |-> {}]),
                   !.sess[s].validationValue = w.inputValue,
                   !.sess[s].validation = Len(w.calls) + 1]
    ELSE w

\* this.validation.then(cb)
Then(w, s, cb) ==
    LET c == w.sess[s].validation IN
    IF c = 0 THEN RunCallback(w, s, cb, "")
    ELSE IF w.calls[c].st = "pending" THEN [w EXCEPT !.calls[c].cbs = @ \cup {cb}]
    ELSE IF w.calls[c].st = "fulfilled"
    THEN RunCallback(w, s, cb, ValidateInput(w.calls[c].value))
    ELSE w

\* TextInputController.didChange
DidChange(w, s) == Then(UpdatedValidation(w, s), s, "msg")

\* InputController.resolve(ok), ok one of "true", "undefined", "error" (a
\* rejected promise, TPromise.wrapError).  For a text input resolve(true)
\* returns a promise and close() hides when it is fulfilled: that hide is part
\* of the "confirm" callback.
ControllerResolve(w, s, ok) ==
    IF ok = "error" THEN Settle(w, s, "rejected", Failure)
    ELSE IF ok = "undefined" THEN Settle(w, s, "fulfilled", Undefined)
    ELSE IF w.sess[s].type = "pickOne" THEN Settle(w, s, "fulfilled", FocusedElement(w))
    ELSE IF w.sess[s].type = "pickMany" THEN Settle(w, s, "fulfilled", CheckedElements(w))
    ELSE Then(UpdatedValidation(w, s), s, "confirm")

\* QuickInputService.close
Close(w, ok) ==
    IF ~w.displayed THEN w
    ELSE IF w.controller # 0
    THEN IF w.sess[w.controller].type = "textInput" /\ ok = "true"
         THEN ControllerResolve(w, w.controller, ok)
         ELSE Hide(ControllerResolve(w, w.controller, ok))
    ELSE Hide(w)

\* QuickInputService.close(undefined, true)
CloseFocusLost(w) ==
    IF ~w.displayed THEN w
    ELSE IF w.controller # 0
    THEN HideFocusLost(ControllerResolve(w, w.controller, "undefined"))
    ELSE HideFocusLost(w)

-----------------------------------------------------------------------------
\* Starting a session.

NewSession(api, type, validator, text) ==
    [api |-> api, type |-> type, result |-> "pending", resultValue |-> Undefined,
     picks |-> IF type = "textInput" THEN "none" ELSE "pending",
     closed |-> FALSE, subs |-> {}, validator |-> validator,
     validationValue |-> NoValue, validation |-> 0, visible |-> FALSE,
     text |-> text, debounce |-> NoValue, delay |-> "none",
     quickNavigate |-> FALSE, keyups |-> 0, ignoreFocusOut |-> FALSE]

\* QuickInputService.show with QuickInputService.createController and the
\* constructor of the controller
ShowSession(w, type, validator, text) ==
    LET s == Len(w.sess) + 1
        w0 == QuickOpenClose(w)
        w1 == IF w0.controller # 0 THEN ControllerResolve(w0, w0.controller, "undefined") ELSE w0
        new == [NewSession("show", type, validator, text) EXCEPT
                    !.subs = IF type = "textInput" /\ validator
                             THEN {"token", "debounce"} ELSE {"token"},
                    !.delay = IF type = "textInput" THEN "none" ELSE "pending"]
        w2 == [w1 EXCEPT !.sess = Append(@, new),
                         !.controller = s,
                         !.ignoreFocusOut = FALSE,
                         !.progress = "stopped",
                         !.ready = (type = "textInput"),
                         !.inputValue = IF type = "textInput" THEN text ELSE "",
                         !.message = IF type = "textInput" THEN DefaultMessage ELSE @,
                         !.listOwner = IF type = "textInput" THEN @ ELSE 0,
                         !.listFocus = IF type = "textInput" THEN @ ELSE 0]
        w2b == IF type = "textInput" THEN w2
               ELSE IF type = "pickMany" THEN SyncChecks(ListSetElements(w2, 0))
               ELSE ListSetElements(w2, 0)
        w3 == IF type = "textInput" /\ validator /\ text # "" THEN DidChange(w2b, s) ELSE w2b
        w4 == IF ~w3.displayed THEN InQuickOpen(w3, "quickInput", TRUE) ELSE w3
    IN  [w4 EXCEPT !.decoration = "Ignore", !.displayed = TRUE]

\* QuickInputService.show with parameters.ignoreFocusLost set
ShowSessionIgnoringFocusLost(w, type, validator, text) ==
    LET w1 == ShowSession(w, type, validator, text)
    IN  [w1 EXCEPT !.ignoreFocusOut = TRUE, !.sess[Len(w1.sess)].ignoreFocusOut = TRUE]

\* QuickInputService.show with a parameters.type that is none of the three,
\* taken for a text input: the controller createController would have to
\* return for the call to go on
ShowUnknownAsText(w) == ShowSession(w, "textInput", FALSE, "")

\* QuickInputService.show with a parameters.type that is none of the three:
\* the statements before createController run, createController throws
ShowUnknown(w) ==
    LET w0 == QuickOpenClose(w)
        w1 == IF w0.controller # 0 THEN ControllerResolve(w0, w0.controller, "undefined") ELSE w0
    IN  [w1 EXCEPT !.ignoreFocusOut = FALSE, !.progress = "stopped", !.ready = FALSE,
                   !.thrown = TRUE]

\* QuickInputService.show2
Show2(w, s) ==
    LET old == w.controller2
        w1 == [QuickOpenClose(w) EXCEPT !.controller2 = s]
        w2 == IF old # 0 THEN DoHide(w1, old) ELSE w1
        w3 == ListSetElements([w2 EXCEPT !.inputValue = "", !.message = "",
                                         !.decoration = "Ignore", !.progress = "stopped",
                                         !.checkAll = FALSE, !.count = 0,
                                         !.listFocus = 0, !.ignoreFocusOut = FALSE], 0)
    IN  [InQuickOpen(w3, "quickInput", TRUE) EXCEPT !.displayed = TRUE]

\* QuickInputService.pick (token not yet cancelled), QuickPick.show, QuickInput.show;
\* the QuickPick is busy when shown, so QuickInput.update starts busyDelay
PickSession(w, many) ==
    LET s == Len(w.sess) + 1
        new == [NewSession("pick", IF many THEN "pickMany" ELSE "pickOne", FALSE, "") EXCEPT
                    !.subs = {"onDidAccept", "onDidChangeActive", "onDidChangeSelection",
                              "token", "onDidHide"} \cup VisibleSubs,
                    !.visible = TRUE,
                    !.delay = "pending"]
        w1 == Show2([w EXCEPT !.sess = Append(@, new)], s)
    IN  [w1 EXCEPT !.selOrder = Append(@, s)]

\* QuickInputService.pick with options.ignoreFocusLost set: the flag is given
\* to the QuickPick before it is shown, and QuickPick.update copies it to the UI
PickSessionIgnoringFocusLost(w, many) ==
    LET w1 == PickSession(w, many)
    IN  [w1 EXCEPT !.ignoreFocusOut = TRUE, !.sess[Len(w1.sess)].ignoreFocusOut = TRUE]

\* QuickInputService.pick with a token that is already cancelled, were it to
\* go on to create and show its UI
PickCancelledShowing(w, many) == [PickSession(w, many) EXCEPT !.returned = "undefined"]

\* QuickInputService.pick with a token that is already cancelled:
\* resolve(undefined); return
PickCancelled(w, many) == [w EXCEPT !.returned = "undefined"]

\* QuickInputService.input (token not yet cancelled), InputBox.show, InputBox.update
InputSession(w, validator, text) ==
    LET s == Len(w.sess) + 1
        new == [NewSession("input", "textInput", validator, text) EXCEPT
                    !.subs = {"onDidValueChange", "onDidAccept", "token", "onDidHide",
                              "change", "accept"},
                    !.visible = TRUE]
        w1 == Show2([w EXCEPT !.sess = Append(@, new)], s)
    IN  [w1 EXCEPT !.inputValue = text, !.message = Prompt]

\* QuickInputService.input with options.ignoreFocusLost set: the flag is given
\* to the InputBox before it is shown; show2 clears the flag of the UI and
\* InputBox.update does not copy it
InputSessionIgnoringFocusLost(w, validator, text) ==
    LET w1 == InputSession(w, validator, text)
    IN  [w1 EXCEPT !.sess[Len(w1.sess)].ignoreFocusOut = TRUE]

\* QuickInputService.input with a token that is already cancelled, were it to
\* go on to create and show its UI
InputCancelledShowing(w, validator, text) ==
    [InputSession(w, validator, text) EXCEPT !.returned = "undefined"]

\* QuickInputService.input with a token that is already cancelled:
\* resolve(undefined); return
InputCancelled(w, validator, text) == [w EXCEPT !.returned = "undefined"]

-----------------------------------------------------------------------------
\* The handlers of pick() and input().

\* InputBox.update for the message: the validation message when there is one,
\* the prompt otherwise; the decoration changes only with the text
InputBoxUpdate(w, s, vm) ==
    IF ~w.sess[s].visible THEN w
    ELSE LET m == IF vm = "" THEN Prompt ELSE vm IN
         IF w.message = m THEN w
         ELSE [w EXCEPT !.message = m,
                        !.decoration = IF vm = "" THEN "Ignore" ELSE "Error"]

\* The callbacks input() chains on a validation: "msg" the one of
\* onDidValueChange, "confirm" the one of onDidAccept for the value it captured
InputCallback(w, s, value, cb, result) ==
    IF cb = "msg" THEN InputBoxUpdate(w, s, result)
    ELSE IF result = "" THEN InputHide(Settle(w, s, "fulfilled", Text(value)), s)
    ELSE w

\* validation = TPromise.wrap(validateInput(value)); validation.then(cb).
\* input() never assigns validationValue, so every event validates anew.
InputValidate(w, s, value, cb) ==
    IF w.sess[s].validator
    THEN [w EXCEPT !.calls = Append(@, [sid |-> s, value |-> value,
                                        st |-> "pending", cbs |-> {cb}])]
    ELSE InputCallback(w, s, value, cb, "")

\* The onDidAccept handler of pick() and of input()
OnDidAccept(w, s) ==
    IF w.sess[s].api = "input" THEN InputValidate(w, s, w.sess[s].text, "confirm")
    ELSE IF w.sess[s].type = "pickMany"
    THEN InputHide(Settle(w, s, "fulfilled", CheckedElements(w)), s)
    ELSE IF FocusedElement(w) # Undefined
    THEN InputHide(Settle(w, s, "fulfilled", FocusedElement(w)), s)
    ELSE w

\* onDidAcceptEmitter.fire(): the visible QuickPick / InputBox passes it on
FireAccept(w) ==
    LET L == {s \in 1..Len(w.sess) :
                 "accept" \in w.sess[s].subs /\ "onDidAccept" \in w.sess[s].subs}
    IN  IF L = {} THEN w ELSE OnDidAccept(w, CHOOSE s \in L : TRUE)

\* One listener of ui.list.onDidChangeSelection: a PickOneController closes
\* with true, pick() resolves with the selected item (single select only)
OnDidChangeSelection(w, s, i) ==
    IF w.sess[s].api = "show" THEN Close(w, "true")
    ELSE IF w.sess[s].type = "pickOne" /\ "onDidChangeSelection" \in w.sess[s].subs
    THEN InputHide(Settle(w, s, "fulfilled", Item(w.listOwner, i)), s)
    ELSE w

RECURSIVE FireSelection(_, _, _)
FireSelection(w, order, i) ==
    IF order = <<>> THEN w
    ELSE FireSelection(OnDidChangeSelection(w, Head(order), i), Tail(order), i)

\* ui.inputBox.onDidChange for one session
OnDidChange(r, v) ==
    IF r.api = "show"
    THEN IF "debounce" \in r.subs THEN [r EXCEPT !.debounce = v] ELSE r
    ELSE IF "change" \in r.subs
    THEN [r EXCEPT !.text = v,
                   !.debounce = IF "onDidValueChange" \in r.subs THEN v ELSE @]
    ELSE r

RECURSIVE MapChange(_, _)
MapChange(ss, v) ==
    IF ss = <<>> THEN <<>> ELSE <<OnDidChange(Head(ss), v)>> \o MapChange(Tail(ss), v)

\* configureQuickNavigate without its quickNavigate flag
ConfigureQuickNavigateAgain(w, s) ==
    [w EXCEPT !.sess[s].quickNavigate = TRUE,
              !.sess[s].keyups = @ + 1,
              !.sess[s].subs = @ \cup {"keyup"}]

\* PickOneController.configureQuickNavigate: keyups counts the key-up
\* listeners the controller holds on the container
ConfigureQuickNavigate(w, s) ==
    IF w.sess[s].quickNavigate THEN w
    ELSE [w EXCEPT !.sess[s].quickNavigate = TRUE,
                   !.sess[s].keyups = @ + 1,
                   !.sess[s].subs = @ \cup {"keyup"}]

\* ui.list.isDisplayed(): setVisibilities showed the list for the session
\* started last
ListDisplayed(w) == Len(w.sess) > 0 /\ w.sess[Len(w.sess)].type # "textInput"

\* QuickInputService.navigate
Navigated(w, next, quickNavigate) ==
    IF w.displayed /\ ListDisplayed(w)
    THEN LET w1 == IF next THEN FocusNext(w) ELSE FocusPrevious(w)
         IN  IF /\ quickNavigate /\ w.controller # 0
                /\ w.sess[w.controller].api = "show"
                /\ w.sess[w.controller].type = "pickOne"
             THEN ConfigureQuickNavigate(w1, w.controller)
             ELSE w1
    ELSE w

\* One key-up listener of a PickOneController, for a key that is released
\* Enter or the modifier of the quick navigate keybinding: this.ui.close(true)
OnKeyUp(w, s) == IF w.sess[s].keyups > 0 THEN Close(w, "true") ELSE w

\* The container fires the key-up event
RECURSIVE FireKeyUp(_, _)
FireKeyUp(w, s) ==
    IF s > Len(w.sess) THEN w ELSE FireKeyUp(OnKeyUp(w, s), s + 1)

\* One listener of ui.inputBox.onKeyDown, for the key "Down" or "Up": the one
\* of a PickOneController, of a PickManyController, of a QuickPick
OnKeyDown(w, s, key) ==
    LET r == w.sess[s] IN
    IF "keydown" \notin r.subs THEN w
    ELSE IF r.api = "show" /\ r.type = "pickOne"
    THEN IF key = "Down" THEN FocusNext(w) ELSE FocusPrevious(w)
    ELSE IF r.api = "show"
    THEN DomFocus(IF key = "Down" THEN FocusFirst(w) ELSE FocusLast(w))
    ELSE LET w1 == IF key = "Down" THEN FocusNext(w) ELSE FocusPrevious(w)
         IN  IF r.type = "pickMany" THEN DomFocus(w1) ELSE w1

\* The input box fires onKeyDown: its listeners run in the order of the sessions
RECURSIVE FireKeyDown(_, _, _)
FireKeyDown(w, s, key) ==
    IF s > Len(w.sess) THEN w ELSE FireKeyDown(OnKeyDown(w, s, key), s + 1, key)

TypeValue(w, v) ==
    LET w1 == [w EXCEPT !.inputValue = v, !.sess = MapChange(@, v)]
        single == {s \in 1..Len(w.sess) :
                      "change" \in w.sess[s].subs /\ w.sess[s].type = "pickOne"}
        filtering == {s \in 1..Len(w.sess) :
                         "change" \in w.sess[s].subs /\ w.sess[s].type # "textInput"}
        w2 == IF filtering # {} THEN ListFilter(w1, v) ELSE w1
    IN  IF single # {} THEN FocusFirst(w2) ELSE w2

\* The debounced change event, 100 ms after the last change
DebounceFired(w, s) ==
    LET v == w.sess[s].debounce
        w1 == [w EXCEPT !.sess[s].debounce = NoValue]
    IN  IF w.sess[s].api = "show" THEN DidChange(w1, s)
        ELSE InputValidate(w1, s, v, "msg")

\* validateInput's promise completes with its message
ValidatorCompleted(w, c) ==
    LET call == w.calls[c]
        s == call.sid
        err == ValidateInput(call.value)
        done == [w EXCEPT !.calls[c].st = "fulfilled", !.calls[c].cbs = {}]
    IN  IF w.sess[s].api = "show"
        THEN IF w.sess[s].validationValue # call.value
             THEN [w EXCEPT !.calls[c].st = "rejected", !.calls[c].cbs = {}]
             ELSE LET w1 == IF "msg" \in call.cbs THEN RunCallback(done, s, "msg", err)
                                                  ELSE done
                  IN  IF "confirm" \in call.cbs THEN RunCallback(w1, s, "confirm", err)
                                                ELSE w1
        ELSE InputCallback(done, s, call.value, CHOOSE cb \in call.cbs : TRUE, err)

\* validateInput's promise fails with an error: the callbacks chained with
\* then(cb) are skipped, the rejection ends in onUnexpectedError (didChange,
\* close) or in no handler at all (input); nothing settles the session
ValidatorFailed(w, c) == [w EXCEPT !.calls[c].st = "failed", !.calls[c].cbs = {}]

\* The same without ui.list.filter(ui.inputBox.value)
SetListUnfiltered(w, s) == SyncChecks(ListSetElements(w, s))

\* ui.list.setElements(elements); ui.list.filter(ui.inputBox.value); then the
\* check-all box and the count are set from the list (a PickOneController
\* leaves them to the list's events)
SetList(w, s) == SyncChecks(ListFilter(ListSetElements(w, s), w.inputValue))

\* The same without the comparison with wasController
ReadyCompletedUnguarded(w, s) == [w EXCEPT !.ready = TRUE, !.progress = "stopped"]

\* show()'s callback on controller.ready, after delay.cancel(): nothing if the
\* controller is no longer the one show() created (wasController)
ReadyCompleted(w, s) ==
    IF w.controller = s THEN [w EXCEPT !.ready = TRUE, !.progress = "stopped"] ELSE w

\* The candidate list arrives
PicksDelivered(w, s) ==
    LET r == w.sess[s]
        w1 == [w EXCEPT !.sess[s].picks = "delivered"]
    IN  IF r.api = "show"
        THEN LET w2 == IF r.closed THEN w1
                       ELSE [SetList(w1, s) EXCEPT
                               !.listFocus = IF r.type = "pickOne" THEN 1 ELSE 0,
                               !.sess[s].subs = @ \cup (IF r.type = "pickOne"
                                                        THEN {"selection", "change", "keydown"}
                                                        ELSE {"change", "keydown"}),
                               !.selOrder = IF r.type = "pickOne" THEN Append(@, s) ELSE @]
                 w3 == [w2 EXCEPT !.sess[s].delay = "none"]
             IN  ReadyCompleted(w3, s)
        ELSE IF r.visible
             THEN [SetList(w1, s) EXCEPT
                             !.listFocus = IF r.type = "pickOne" THEN 1 ELSE 0,
                             !.ignoreFocusOut = r.ignoreFocusOut,
                             !.progress = IF r.delay # "none" THEN "stopped" ELSE @,
                             !.sess[s].delay = "none"]
             ELSE w1

\* The candidate list fails and no handler closes the session
PicksFailedKeepingOpen(w, s) == [w EXCEPT !.sess[s].picks = "failed"]

\* The candidate list fails
PicksFailed(w, s) ==
    LET w1 == [w EXCEPT !.sess[s].picks = "failed"]
    IN  IF w.sess[s].api = "show" THEN Close(w1, "error")
        ELSE InputHide(Settle(w1, s, "rejected", Failure), s)

\* The 800 ms timer of session s fires: the delay of show(), which starts the
\* indicator if the controller is still the current one, or the busyDelay of
\* QuickInput.update, which starts it
DelayFired(w, s) ==
    IF w.sess[s].api = "show"
    THEN [w EXCEPT !.sess[s].delay = "none",
                   !.progress = IF w.controller = s THEN "infinite" ELSE @]
    ELSE [w EXCEPT !.sess[s].delay = "fired", !.progress = "infinite"]

\* The cancellation token of session s is cancelled.  A token fires its
\* listeners once: the listener is gone after it ran.
TokenCancelled(w, s) ==
    LET w1 == [w EXCEPT !.sess[s].subs = @ \ {"token"}]
    IN  IF "token" \notin w.sess[s].subs THEN w
        ELSE IF w.sess[s].api = "show" THEN Close(w1, "undefined")
        ELSE InputHide(w1, s)

\* The Enter key in the container (keydown listener of create())
OnEnter(w) ==
    IF w.controller # 0
    THEN IF w.ready THEN Close(w, "true") ELSE w
    ELSE FireAccept(w)

\* A click on the OK button (ok.onDidClick listener of create())
OnOkClick(w) ==
    IF w.controller # 0
    THEN IF w.ready THEN Close(w, "true") ELSE w
    ELSE FireAccept(w)

\* The Escape key in the container (keydown listener of create())
OnEscape(w) == IF w.controller # 0 THEN Close(w, "undefined") ELSE Hide2(w)

\* QuickInputService.accept
ServiceAccept(w) == IF w.controller # 0 THEN Close(w, "true") ELSE FireAccept(w)

\* QuickInputService.cancel
ServiceCancel(w) == IF w.controller # 0 THEN Close(w, "undefined") ELSE Hide2(w)

\* The focusout listener of the container (create()) for a focus that moves
\* outside the container, were it not to look at ui.ignoreFocusOut
FocusOutUnconditional(w, closeOnFocusLost) ==
    IF closeOnFocusLost
    THEN IF w.controller # 0 THEN CloseFocusLost(w) ELSE Hide2FocusLost(w)
    ELSE w

\* The focusout listener of the container (create()) for a focus that moves
\* outside the container; closeOnFocusLost is the configured
\* CLOSE_ON_FOCUS_LOST_CONFIG with no 'sticky-quickopen' argument
FocusOut(w, closeOnFocusLost) ==
    IF ~w.ignoreFocusOut /\ closeOnFocusLost
    THEN IF w.controller # 0 THEN CloseFocusLost(w) ELSE Hide2FocusLost(w)
    ELSE w

\* quickOpenService.onShow: the listener of the constructor, then the one of
\* create()
OnQuickOpenShow(w) ==
    LET w1 == InQuickOpen([w EXCEPT !.quickOpen = TRUE], "quickOpen", TRUE)
    IN  IF w1.controller # 0 THEN Close(w1, "undefined") ELSE Hide2(w1)

\* quickOpenService.onHide: the listener of the constructor
OnQuickOpenHide(w) == InQuickOpen([w EXCEPT !.quickOpen = FALSE], "quickOpen", FALSE)

-----------------------------------------------------------------------------
\* The explorer of cloudShell/explorer.ts: the entry being created.

Null == "<null>"

\* The folder new entries are created in (the input of the tree), the names
\* the user types, and the number of POST requests made.
Folder == "/home"
Names == {"a", "b"}
MaxPosts == 2

\* How a POST request ends: answered with a 2xx status, answered with another
\* status, or not answered (fetch rejects).
Outcomes == {"created", "refused", "unreachable"}

\* The state of the explorer as one record.  The field refreshed is no part of
\* the state: it holds the folders the handler applied to the record has
\* called tree.refresh with.
Explorer ==
    [newEntryParentUri |-> newEntryParentUri, newEntryIsFolder |-> newEntryIsFolder,
     entryShown |-> entryShown, element |-> element, input |-> input,
     posts |-> posts, editors |-> editors, refreshed |-> {}]

CommitExplorer(w) ==
    /\ newEntryParentUri' = w.newEntryParentUri
    /\ newEntryIsFolder' = w.newEntryIsFolder
    /\ entryShown' = w.entryShown
    /\ element' = w.element
    /\ input' = w.input
    /\ posts' = w.posts
    /\ editors' = w.editors
    /\ UNCHANGED <<quickInputVars, issueVars>>

InitExplorer ==
    /\ newEntryParentUri = Null
    /\ newEntryIsFolder = FALSE
    /\ entryShown = FALSE
    /\ element = [parent |-> Null, isFolder |-> FALSE]
    /\ input = [value |-> "", disabled |-> FALSE]
    /\ posts = <<>>
    /\ editors = {}

\* tree.refresh(parent): DataSource.getChildren adds the editable entry when
\* parent is newEntryParentUri, and Renderer.renderElement renders it
TreeRefresh(w, parent) ==
    IF w.newEntryParentUri # Null /\ parent = w.newEntryParentUri
    THEN [w EXCEPT !.entryShown = TRUE,
                   !.element = [parent |-> parent, isFolder |-> w.newEntryIsFolder],
                   !.input = [value |-> "", disabled |-> FALSE],
                   !.refreshed = @ \cup {parent}]
    ELSE [w EXCEPT !.entryShown = FALSE, !.refreshed = @ \cup {parent}]

\* newEntry
NewEntry(w, isFolder) ==
    TreeRefresh([w EXCEPT !.newEntryParentUri = Folder, !.newEntryIsFolder = isFolder],
                Folder)

\* The keydown listener of the input, keyCode 13
EntryEnter(w) ==
    IF w.input.value # ""
    THEN [w EXCEPT !.input.disabled = TRUE,
                   !.posts = Append(@, [name |-> w.input.value, st |-> "pending"])]
    ELSE w

\* fetch(...).catch(console.error).then(...) of the keydown listener: the
\* request p ends
PostCompleted(w, p, outcome) ==
    LET w1 == [w EXCEPT !.posts[p].st = outcome, !.newEntryParentUri = Null]
        w2 == TreeRefresh(w1, w1.element.parent)
    IN  IF ~w2.element.isFolder
        THEN [w2 EXCEPT !.editors = @ \cup {w.posts[p].name}]
        ELSE w2

\* The keydown listener of the input, keyCode 27
EntryEscape(w) == TreeRefresh([w EXCEPT !.newEntryParentUri = Null], w.element.parent)

\* The blur listener of the input
EntryBlur(w) ==
    IF ~w.input.disabled /\ w.newEntryParentUri # Null
    THEN TreeRefresh([w EXCEPT !.newEntryParentUri = Null], w.element.parent)
    ELSE w

-----------------------------------------------------------------------------
\* The issue channel of platform/issue/common/issue.ts.

\* The data given to openReporter / openProcessExplorer, the commands a
\* channel is called with, and the number of calls the service receives.
IssueData == {"d1", "d2"}
Commands == {"openIssueReporter", "openProcessExplorer", "getSystemInfo",
             "getStatusInfo", "openReporter"}
MaxIssueCalls == 3

\* undefined: no argument, no result
IssueUndefined == "<undefined>"

Issue == [log |-> issueLog, returned |-> issueReturned]

CommitIssue(w) ==
    /\ issueLog' = w.log
    /\ issueReturned' = w.returned
    /\ UNCHANGED <<quickInputVars, explorerVars>>

InitIssue ==
    /\ issueLog = <<>>
    /\ issueReturned = IssueUndefined

\* The IIssueService behind the channel: a method records its call and
\* returns a result of its own, which depends on the method and its argument.
ServiceResult(method, arg) == [of |-> method, arg |-> arg]

ServiceMethod(w, method, arg) ==
    [w EXCEPT !.log = Append(@, [method |-> method, arg |-> arg]),
              !.returned = ServiceResult(method, arg)]

ServiceOpenReporter(w, data) == ServiceMethod(w, "openReporter", data)
ServiceOpenProcessExplorer(w, data) == ServiceMethod(w, "openProcessExplorer", data)
ServiceGetSystemInfo(w) == ServiceMethod(w, "getSystemInfo", IssueUndefined)

\* IssueChannel.call, were 'openProcessExplorer' to fall into the case above it
ChannelCallMisrouted(w, command, arg) ==
    IF command \in {"openIssueReporter", "openProcessExplorer"}
    THEN ServiceOpenReporter(w, arg)
    ELSE IF command = "getSystemInfo" THEN ServiceGetSystemInfo(w)
    ELSE [w EXCEPT !.returned = IssueUndefined]

\* IssueChannel.call
ChannelCall(w, command, arg) ==
    IF command = "openIssueReporter" THEN ServiceOpenReporter(w, arg)
    ELSE IF command = "openProcessExplorer" THEN ServiceOpenProcessExplorer(w, arg)
    ELSE IF command = "getSystemInfo" THEN ServiceGetSystemInfo(w)
    ELSE [w EXCEPT !.returned = IssueUndefined]

\* IssueChannelClient
ClientOpenReporter(w, data) == ChannelCall(w, "openIssueReporter", data)
ClientOpenProcessExplorer(w, data) == ChannelCall(w, "openProcessExplorer", data)
ClientGetSystemInfo(w) == ChannelCall(w, "getSystemInfo", IssueUndefined)

-----------------------------------------------------------------------------
\* The steps of the program.

Init ==
    /\ displayed = FALSE
    /\ controller = 0
    /\ controller2 = 0
    /\ ready = FALSE
    /\ sess = <<>>
    /\ calls = <<>>
    /\ inputValue = ""
    /\ message = ""
    /\ decoration = "Ignore"
    /\ listOwner = 0
    /\ listFocus = 0
    /\ selOrder = <<>>
    /\ progress = "stopped"
    /\ checked = {}
    /\ listFilter = ""
    /\ checkAll = FALSE
    /\ count = 0
    /\ ignoreFocusOut = FALSE
    /\ quickOpen = FALSE
    /\ inQuickOpenWidgets = {}
    /\ inQuickOpenContext = FALSE
    /\ InitExplorer
    /\ InitIssue

\* A handler runs; a handler calling validateInput needs a call left in the bound
Step(w) == Len(w.calls) <= MaxCalls /\ Commit(w)

Show(type, validator, text) ==
    /\ Len(sess) < MaxSessions
    /\ type = "textInput" \/ (~validator /\ text = "")
    /\ Step(ShowSession(World, type, validator, text))

ShowUnknownType ==
    /\ Len(sess) < MaxSessions
    /\ Step(ShowUnknown(World))

Pick(many) ==
    /\ Len(sess) < MaxSessions
    /\ Step(PickSession(World, many))

ShowIgnoringFocusLost(type, validator, text) ==
    /\ Len(sess) < MaxSessions
    /\ type = "textInput" \/ (~validator /\ text = "")
    /\ Step(ShowSessionIgnoringFocusLost(World, type, validator, text))

PickIgnoringFocusLost(many) ==
    /\ Len(sess) < MaxSessions
    /\ Step(PickSessionIgnoringFocusLost(World, many))

InputIgnoringFocusLost(validator, text) ==
    /\ Len(sess) < MaxSessions
    /\ Step(InputSessionIgnoringFocusLost(World, validator, text))

\* The focus leaves the container
FocusLost(closeOnFocusLost) ==
    /\ displayed
    /\ Step(FocusOut(World, closeOnFocusLost))

\* The quick-open widget is shown
QuickOpenShow ==
    /\ ~quickOpen
    /\ Step(OnQuickOpenShow(World))

\* The quick-open widget is hidden
QuickOpenHide ==
    /\ quickOpen
    /\ Step(OnQuickOpenHide(World))

Input(validator, text) ==
    /\ Len(sess) < MaxSessions
    /\ Step(InputSession(World, validator, text))

PickWithCancelledToken(many) ==
    /\ Len(sess) < MaxSessions
    /\ Step(PickCancelled(World, many))

InputWithCancelledToken(validator, text) ==
    /\ Len(sess) < MaxSessions
    /\ Step(InputCancelled(World, validator, text))

PicksDeliver(s) ==
    /\ sess[s].picks = "pending"
    /\ Step(PicksDelivered(World, s))

PicksFail(s) ==
    /\ sess[s].picks = "pending"
    /\ Step(PicksFailed(World, s))

Type(v) ==
    /\ displayed
    /\ v # inputValue
    /\ Step(TypeValue(World, v))

DebounceFire(s) ==
    /\ sess[s].debounce # NoValue
    /\ Step(DebounceFired(World, s))

ValidatorComplete(c) ==
    /\ calls[c].st = "pending"
    /\ Step(ValidatorCompleted(World, c))

ValidatorFail(c) ==
    /\ calls[c].st = "pending"
    /\ Step(ValidatorFailed(World, c))

KeyEnter ==
    /\ displayed
    /\ Step(OnEnter(World))

KeyEscape ==
    /\ displayed
    /\ Step(OnEscape(World))

\* The OK button shows (setVisibilities) while the session started last is a
\* pick-many
OkShown == displayed /\ Len(sess) > 0 /\ sess[Len(sess)].type = "pickMany"

OkClick ==
    /\ OkShown
    /\ Step(OnOkClick(World))

Accept == Step(ServiceAccept(World))

Cancel == Step(ServiceCancel(World))

\* The user selects the i-th element of the list
ListSelect(i) ==
    /\ displayed
    /\ listOwner # 0
    /\ Step(FireSelection([World EXCEPT !.listFocus = i], selOrder, i))

TokenCancel(s) ==
    /\ Step(TokenCancelled(World, s))

Navigate(next, quickNavigate) ==
    /\ displayed
    /\ ListDisplayed(World)
    /\ Step(Navigated(World, next, quickNavigate))

\* The user releases Enter or the quick navigate modifier in the container
QuickNavKeyUp ==
    /\ displayed
    /\ \E s \in 1..Len(sess) : sess[s].keyups > 0
    /\ Step(FireKeyUp(World, 1))

\* The user presses the Down or the Up key in the input box
ArrowKey(key) ==
    /\ displayed
    /\ Step(FireKeyDown(World, 1, key))

\* The check-all box and the check marks show (setVisibilities) while the
\* session started last is a pick-many whose list is displayed
ChecksShown ==
    displayed /\ listOwner # 0 /\ listOwner = Len(sess) /\ sess[listOwner].type = "pickMany"

ToggleCheckAll ==
    /\ ChecksShown
    /\ Step(CheckAllChanged(World))

ToggleItem(i) ==
    /\ ChecksShown
    /\ i \in VisibleElements(World)
    /\ Step(ItemToggled(World, i))

DelayFire(s) ==
    /\ sess[s].delay = "pending"
    /\ Step(DelayFired(World, s))

Next ==
    \/ \E type \in {"pickOne", "pickMany", "textInput"}, validator \in BOOLEAN,
          text \in InitialValues : Show(type, validator, text)
    \/ ShowUnknownType
    \/ \E many \in BOOLEAN : Pick(many)
    \/ \E validator \in BOOLEAN, text \in InitialValues : Input(validator, text)
    \/ \E many \in BOOLEAN : PickWithCancelledToken(many)
    \/ \E validator \in BOOLEAN, text \in InitialValues :
          InputWithCancelledToken(validator, text)
    \/ \E s \in 1..Len(sess) : PicksDeliver(s)
    \/ \E s \in 1..Len(sess) : PicksFail(s)
    \/ \E v \in Values : Type(v)
    \/ \E s \in 1..Len(sess) : DebounceFire(s)
    \/ \E c \in 1..Len(calls) : ValidatorComplete(c)
    \/ \E c \in 1..Len(calls) : ValidatorFail(c)
    \/ KeyEnter
    \/ KeyEscape
    \/ OkClick
    \/ Accept
    \/ Cancel
    \/ \E i \in 1..NumPicks : ListSelect(i)
    \/ \E s \in 1..Len(sess) : TokenCancel(s)
    \/ \E s \in 1..Len(sess) : DelayFire(s)
    \/ \E key \in {"Down", "Up"} : ArrowKey(key)
    \/ \E next \in BOOLEAN, quickNavigate \in BOOLEAN : Navigate(next, quickNavigate)
    \/ QuickNavKeyUp
    \/ ToggleCheckAll
    \/ \E i \in 1..NumPicks : ToggleItem(i)

Spec == Init /\ [][Next]_vars

\* The histories in which every session is started through show(): the legacy
\* controllers alone, pick() and input() never called.
NextLegacy ==
    \/ \E type \in {"pickOne", "pickMany", "textInput"}, validator \in BOOLEAN,
          text \in InitialValues : Show(type, validator, text)
    \/ ShowUnknownType
    \/ \E s \in 1..Len(sess) : PicksDeliver(s)
    \/ \E s \in 1..Len(sess) : PicksFail(s)
    \/ \E v \in Values : Type(v)
    \/ \E s \in 1..Len(sess) : DebounceFire(s)
    \/ \E c \in 1..Len(calls) : ValidatorComplete(c)
    \/ \E c \in 1..Len(calls) : ValidatorFail(c)
    \/ KeyEnter
    \/ KeyEscape
    \/ OkClick
    \/ Accept
    \/ Cancel
    \/ \E i \in 1..NumPicks : ListSelect(i)
    \/ \E s \in 1..Len(sess) : TokenCancel(s)
    \/ \E s \in 1..Len(sess) : DelayFire(s)
    \/ \E key \in {"Down", "Up"} : ArrowKey(key)
    \/ \E next \in BOOLEAN, quickNavigate \in BOOLEAN : Navigate(next, quickNavigate)
    \/ QuickNavKeyUp
    \/ ToggleCheckAll
    \/ \E i \in 1..NumPicks : ToggleItem(i)

SpecLegacy == Init /\ [][NextLegacy]_vars

\* The histories of the sessions' life cycle (start, with or without
\* ignoreFocusLost, loading, validation, confirmation, cancellation) together
\* with the events of the environment: the focus leaving the container and the
\* quick-open widget being shown and hidden.  Typing, list navigation and
\* check marks are left out.
NextEnv ==
    \/ \E type \in {"pickOne", "pickMany", "textInput"}, validator \in BOOLEAN,
          text \in InitialValues : Show(type, validator, text)
    \/ \E type \in {"pickOne", "pickMany", "textInput"}, validator \in BOOLEAN,
          text \in InitialValues : ShowIgnoringFocusLost(type, validator, text)
    \/ \E many \in BOOLEAN : Pick(many)
    \/ \E many \in BOOLEAN : PickIgnoringFocusLost(many)
    \/ \E validator \in BOOLEAN, text \in InitialValues : Input(validator, text)
    \/ \E validator \in BOOLEAN, text \in InitialValues :
          InputIgnoringFocusLost(validator, text)
    \/ \E s \in 1..Len(sess) : PicksDeliver(s)
    \/ \E s \in 1..Len(sess) : PicksFail(s)
    \/ \E c \in 1..Len(calls) : ValidatorComplete(c)
    \/ \E c \in 1..Len(calls) : ValidatorFail(c)
    \/ KeyEnter
    \/ KeyEscape
    \/ Accept
    \/ Cancel
    \/ \E i \in 1..NumPicks : ListSelect(i)
    \/ \E s \in 1..Len(sess) : TokenCancel(s)
    \/ \E s \in 1..Len(sess) : DelayFire(s)
    \/ \E closeOnFocusLost \in BOOLEAN : FocusLost(closeOnFocusLost)
    \/ QuickOpenShow
    \/ QuickOpenHide

SpecEnv == Init /\ [][NextEnv]_vars

\* The steps of the explorer.

\* newFile / newFolder
NewFileOrFolder(isFolder) == CommitExplorer(NewEntry(Explorer, isFolder))

\* The user types a name in the input
TypeName(name) ==
    /\ entryShown /\ ~input.disabled
    /\ CommitExplorer([Explorer EXCEPT !.input.value = name])

PressEnter ==
    /\ entryShown /\ ~input.disabled
    /\ Len(posts) < MaxPosts
    /\ CommitExplorer(EntryEnter(Explorer))

PressEscape ==
    /\ entryShown /\ ~input.disabled
    /\ CommitExplorer(EntryEscape(Explorer))

Blur ==
    /\ entryShown
    /\ CommitExplorer(EntryBlur(Explorer))

PostComplete(p, outcome) ==
    /\ posts[p].st = "pending"
    /\ CommitExplorer(PostCompleted(Explorer, p, outcome))

NextExplorer ==
    \/ \E isFolder \in BOOLEAN : NewFileOrFolder(isFolder)
    \/ \E name \in Names : TypeName(name)
    \/ PressEnter
    \/ PressEscape
    \/ Blur
    \/ \E p \in 1..Len(posts), outcome \in Outcomes : PostComplete(p, outcome)

SpecExplorer == Init /\ [][NextExplorer]_vars

\* The steps of a client of the issue channel.

OpenReporter(data) ==
    /\ Len(issueLog) < MaxIssueCalls
    /\ CommitIssue(ClientOpenReporter(Issue, data))

OpenProcessExplorer(data) ==
    /\ Len(issueLog) < MaxIssueCalls
    /\ CommitIssue(ClientOpenProcessExplorer(Issue, data))

GetSystemInfo ==
    /\ Len(issueLog) < MaxIssueCalls
    /\ CommitIssue(ClientGetSystemInfo(Issue))

\* The channel is called with a command that is none of the three
CallOther(command, arg) ==
    /\ command \notin {"openIssueReporter", "openProcessExplorer", "getSystemInfo"}
    /\ CommitIssue(ChannelCall(Issue, command, arg))

NextIssue ==
    \/ \E data \in IssueData : OpenReporter(data)
    \/ \E data \in IssueData : OpenProcessExplorer(data)
    \/ GetSystemInfo
    \/ \E command \in Commands, arg \in IssueData \cup {IssueUndefined} :
          CallOther(command, arg)

SpecIssue == Init /\ [][NextIssue]_vars

-----------------------------------------------------------------------------
\* Notions the properties are stated in.

Sessions == 1..Len(sess)
Active(s) == sess[s].result = "pending"
Cancelled(r) == r.result = "fulfilled" /\ r.resultValue = Undefined

\* The session whose UI the container shows: the one started last.
Shown == Len(sess)

\* The subscriptions a session holds on the shared UI (input box, list,
\* container, accept emitter), as opposed to its token and to the listeners on
\* its own QuickPick / InputBox emitters.
UISubs(s) == sess[s].subs \cap (VisibleSubs \cup {"debounce", "keyup"})

\* The candidate list or a validator call of session s is still outstanding.
WorkPending(s) ==
    \/ sess[s].picks = "pending"
    \/ \E c \in 1..Len(calls) : calls[c].sid = s /\ calls[c].st = "pending"

-----------------------------------------------------------------------------
\* C1: whenever a session is started while earlier sessions are still
\* active, every earlier session's result promise is settled by the time the
\* new session's UI is attached (single-flight).
C1_SingleFlight ==
    [][Len(sess') > Len(sess) =>
          \A s \in Sessions : sess'[s].result # "pending"]_vars

\* C2: whenever a session is active, cancel() leaves its result promise
\* fulfilled with undefined.
C2_CancelSettles ==
    \A s \in Sessions :
        Active(s) => Cancelled(ServiceCancel(World).sess[s])

\* C3: the container is hidden only after the result promise of the session
\* displayed in it has settled.
C3_HiddenAfterSettled ==
    (~displayed /\ Shown > 0) => ~Active(Shown)

\* C4: when a validator call of the displayed text input completes for a value
\* that is no longer the value of the input box, neither the message nor the
\* decoration changes.
C4_StaleValidationNotApplied ==
    \A c \in 1..Len(calls) :
        (/\ calls[c].st = "pending" /\ calls[c].value # inputValue
         /\ calls[c].sid = Shown /\ Active(Shown) /\ displayed) =>
            LET w == ValidatorCompleted(World, c)
            IN  w.message = message /\ w.decoration = decoration

\* C5: confirming (Enter, accept()) the displayed text input while the
\* validator rejects its current value leaves it displayed and unsettled, and
\* so does the completion of the validator call of such a confirm.
C5_InvalidConfirmKeepsOpen ==
    /\ (/\ displayed /\ Shown > 0 /\ sess[Shown].type = "textInput"
        /\ Active(Shown) /\ sess[Shown].validator
        /\ ValidateInput(inputValue) # "") =>
            \A w \in {OnEnter(World), ServiceAccept(World)} :
                w.displayed /\ w.sess[Shown].result = "pending"
    /\ \A c \in 1..Len(calls) :
        (/\ calls[c].st = "pending" /\ "confirm" \in calls[c].cbs
         /\ calls[c].sid = Shown /\ Active(Shown) /\ displayed
         /\ ValidateInput(calls[c].value) # "") =>
            LET w == ValidatorCompleted(World, c)
            IN  w.displayed /\ w.sess[Shown].result = "pending"

\* C6: a text input with a validator fulfils with a string only if the
\* validator passes that string.
C6_OnlyValidatedText ==
    \A s \in Sessions :
        (/\ sess[s].type = "textInput" /\ sess[s].validator
         /\ sess[s].result = "fulfilled" /\ sess[s].resultValue.k = "text") =>
            ValidateInput(sess[s].resultValue.v) = ""

\* C7: cancelling a session whose candidate list or validator call is still
\* outstanding fulfils it with undefined, and a settled result promise never
\* changes again.
C7_CancelWhilePendingOnce ==
    /\ [](\A s \in Sessions :
            (Active(s) /\ WorkPending(s)) => Cancelled(ServiceCancel(World).sess[s]))
    /\ [][\A s \in Sessions :
            ~Active(s) => (/\ sess'[s].result = sess[s].result
                           /\ sess'[s].resultValue = sess[s].resultValue)]_vars

\* C8: when the cancellation token of an active session fires, the session's
\* result promise is fulfilled with undefined.
C8_TokenSettles ==
    \A s \in Sessions :
        (Active(s) /\ "token" \in sess[s].subs) =>
            Cancelled(TokenCancelled(World, s).sess[s])

\* C9: once a session's result promise has settled, the firing of its
\* cancellation token changes nothing: no UI is hidden, no session is settled.
C9_TokenAfterSettleNoop ==
    \A s \in Sessions : ~Active(s) => TokenCancelled(World, s) = World

\* C9 witness: a session has settled (here not by cancellation) while a later
\* session is displayed and active, and firing the first one's token is a no-op.
C9_Witness ==
    \E s, t \in Sessions :
        /\ s < t /\ ~Active(s) /\ Active(t) /\ displayed
        /\ TokenCancelled(World, s) = World

\* C10: at most one strategy holds subscriptions on the shared UI.
C10_OneStrategyWired ==
    Cardinality({s \in Sessions : UISubs(s) # {}}) <= 1

\* C11: when the candidate list of a session that is already torn down (its
\* result promise settled) is delivered, the list's elements and focus and the
\* registered subscriptions are left unchanged.
C11_StalePicksDiscarded ==
    \A s \in Sessions :
        (sess[s].picks = "pending" /\ ~Active(s)) =>
            LET w == PicksDelivered(World, s)
            IN  /\ w.listOwner = listOwner
                /\ w.listFocus = listFocus
                /\ w.selOrder = selOrder
                /\ \A t \in Sessions : w.sess[t].subs = sess[t].subs

\* C12: the completion of a validator call whose text-input session has
\* already settled (cancelled, accepted or superseded) changes neither the
\* message nor the decoration.
C12_ValidationAfterCloseNoop ==
    \A c \in 1..Len(calls) :
        (calls[c].st = "pending" /\ ~Active(calls[c].sid)) =>
            LET w == ValidatorCompleted(World, c)
            IN  w.message = message /\ w.decoration = decoration

\* C13: when the candidate list of a session that has already settled (closed
\* or superseded) fails, no later session is settled and the container is not
\* hidden.
C13_StaleLoadFailureNoop ==
    \A s \in Sessions :
        (sess[s].picks = "pending" /\ ~Active(s)) =>
            LET w == PicksFailed(World, s)
            IN  /\ w.displayed = displayed
                /\ \A t \in Sessions :
                      t > s => /\ w.sess[t].result = sess[t].result
                               /\ w.sess[t].resultValue = sess[t].resultValue

\* C14: a session whose result promise has settled holds no subscription on
\* the shared UI, and no subscription is added to a settled session.
C14_SettledHoldsNoSubscription ==
    /\ [](\A s \in Sessions : ~Active(s) => UISubs(s) = {})
    /\ [][\A s \in Sessions :
            ~Active(s) => (sess'[s].subs \cap (VisibleSubs \cup {"debounce", "keyup"}))
                              \subseteq UISubs(s)]_vars

\* C15: closing a session again does not repeat its teardown: once the session
\* started last has settled and the container is hidden, neither the
\* completion of its pending confirm, nor cancel(), nor its token hides the
\* container (and refocuses the editor group) again, and hide() on a QuickPick
\* or InputBox that doHide() already hid does nothing.
C15_TeardownOnce ==
    /\ \A c \in 1..Len(calls) :
          (/\ calls[c].st = "pending" /\ calls[c].sid = Shown
           /\ ~Active(Shown) /\ ~displayed) =>
              ValidatorCompleted(World, c).hides = 0
    /\ (Shown > 0 /\ ~Active(Shown) /\ ~displayed) =>
          /\ ServiceCancel(World).hides = 0
          /\ TokenCancelled(World, Shown).hides = 0
    /\ \A s \in Sessions :
          (sess[s].api # "show" /\ ~sess[s].visible) => InputHide(World, s) = World

\* C16: when the 800 ms timer of a session fires and starts the indicator,
\* that session is the one displayed, unsettled and still waiting for its
\* candidate list: the indicator is never started for a session that is ready,
\* hidden or replaced.
C16_ProgressOnlyWhileWaiting ==
    \A s \in Sessions :
        (/\ sess[s].delay = "pending" /\ progress = "stopped"
         /\ DelayFired(World, s).progress = "infinite") =>
            displayed /\ s = Shown /\ Active(s) /\ sess[s].picks = "pending"

\* The debounced change event of session s, made of a burst of changes that
\* ended with the value sess[s].debounce, makes exactly one more call of the
\* validator, for that value.
OneCallForLast(s) ==
    LET w == DebounceFired(World, s)
    IN  /\ Len(w.calls) = Len(calls) + 1
        /\ w.calls[Len(w.calls)].sid = s
        /\ w.calls[Len(w.calls)].value = sess[s].debounce
        /\ w.calls[Len(w.calls)].st = "pending"
        /\ \A c \in 1..Len(calls) : w.calls[c].value = calls[c].value

\* C17: a burst of changes inside one debounce window leaves one debounced
\* event pending, whose firing makes exactly one validator call, with the last
\* value of the burst.  The legacy controller may skip the call when that value
\* is the one it validated last (updatedValidation reuses the validation).
C17_DebouncedValidationUnlessValidated ==
    \A s \in Sessions :
        (sess[s].validator /\ sess[s].debounce # NoValue) =>
            IF sess[s].api = "show" /\ sess[s].debounce = sess[s].validationValue
            THEN Len(DebounceFired(World, s).calls) = Len(calls)
            ELSE OneCallForLast(s)

C19_LoadFailureRejects ==
    \A s \in Sessions :
        (s = Shown /\ Active(s) /\ sess[s].picks = "pending") =>
            LET w == PicksFailed(World, s)
            IN  /\ w.sess[s].result = "rejected"
                /\ w.sess[s].resultValue = Failure
                /\ ~w.displayed

\* C20: when the validator of an unsettled text input fails, during the
\* debounced validation or during the confirm, the session's result is
\* rejected with the error.
C20_ValidatorFailureRejects ==
    \A c \in 1..Len(calls) :
        (calls[c].st = "pending" /\ Active(calls[c].sid)) =>
            LET w == ValidatorFailed(World, c)
            IN  /\ w.sess[calls[c].sid].result = "rejected"
                /\ w.sess[calls[c].sid].resultValue = Failure

\* C21: a validation that answers an error on confirm, or that is superseded
\* (updatedValidation throws canceled()), leaves the result of its unsettled
\* session pending, and no validation result rejects it; cancel() and the
\* Escape key leave the unsettled session started last fulfilled with
\* undefined, never rejected.
C21_CanceledNeverRejects ==
    /\ \A c \in 1..Len(calls) :
          (calls[c].st = "pending" /\ Active(calls[c].sid)) =>
              LET s == calls[c].sid
                  w == ValidatorCompleted(World, c)
              IN  /\ w.sess[s].result # "rejected"
                  /\ (\/ ValidateInput(calls[c].value) # ""
                      \/ (sess[s].api = "show" /\ sess[s].validationValue # calls[c].value)) =>
                         w.sess[s].result = "pending"
    /\ (Shown > 0 /\ Active(Shown)) =>
          /\ Cancelled(ServiceCancel(World).sess[Shown])
          /\ displayed => Cancelled(OnEscape(World).sess[Shown])

C23_PickOneResultFromOwnList ==
    /\ \A s \in Sessions :
          (sess[s].type = "pickOne" /\ sess[s].result = "fulfilled") =>
              \/ sess[s].resultValue = Undefined
              \/ sess[s].resultValue.k = "item" /\ sess[s].resultValue.s = s
    /\ (/\ displayed /\ Shown > 0 /\ Active(Shown) /\ sess[Shown].type = "pickOne"
        /\ listOwner = Shown /\ listFocus # 0) =>
          LET r == OnEnter(World).sess[Shown]
          IN  r.result = "fulfilled" /\ r.resultValue = Item(Shown, listFocus)

\* C24: on the displayed, unsettled pick session whose list is delivered, the
\* Down key moves the list focus from an element to the next one and the Up key
\* to the previous one; in pick-many mode the key calls ui.list.domFocus(), in
\* pick-one mode it does not.
C24_ArrowKeysMoveByOne ==
    (/\ displayed /\ Shown > 0 /\ Active(Shown) /\ listOwner = Shown
     /\ "keydown" \in sess[Shown].subs) =>
        LET down == FireKeyDown(World, 1, "Down")
            up == FireKeyDown(World, 1, "Up")
        IN  /\ (listFocus >= 1 /\ listFocus < NumPicks) => down.listFocus = listFocus + 1
            /\ listFocus > 1 => up.listFocus = listFocus - 1
            /\ down.domFocus = (sess[Shown].type = "pickMany")
            /\ up.domFocus = (sess[Shown].type = "pickMany")

C26_FilterIsInputText ==
    /\ \A type \in {"pickOne", "pickMany"} : ShowSession(World, type, FALSE, "").listOwner = 0
    /\ \A many \in BOOLEAN : PickSession(World, many).listOwner = 0
    /\ (/\ displayed /\ Shown > 0 /\ Active(Shown) /\ sess[Shown].type # "textInput"
        /\ listOwner = Shown) =>
          /\ listFilter = inputValue
          /\ \A v \in Values : TypeValue(World, v).listFilter = v

\* The list of the displayed pick session is delivered and filtered by a text
\* that hides one of its elements.
C26_Witness ==
    /\ displayed /\ Shown > 0 /\ Active(Shown) /\ sess[Shown].type # "textInput"
    /\ listOwner = Shown
    /\ listFilter = "abc"
    /\ Cardinality(VisibleElements(World)) < NumPicks

\* The text the message area of session s shows when there is no error
NoErrorText(s) == IF sess[s].api = "show" THEN DefaultMessage ELSE Prompt

\* C27: when the validation requested for a change to the current value of the
\* displayed text input completes, the message area shows the validator's
\* error, or the default text if there is none; and once the validator has
\* answered no error for the current value and the default text is shown, an
\* older validation of the session that completes late does not change it.
C27_NoStaleErrorShown ==
    \A c \in 1..Len(calls) :
        (/\ calls[c].st = "pending" /\ calls[c].sid = Shown
         /\ Active(Shown) /\ displayed) =>
            LET w == ValidatorCompleted(World, c)
                err == ValidateInput(calls[c].value)
            IN  /\ (/\ calls[c].value = inputValue /\ "msg" \in calls[c].cbs
                    /\ sess[Shown].api = "show" => sess[Shown].validationValue = inputValue) =>
                       w.message = IF err # "" THEN err ELSE NoErrorText(Shown)
                /\ (/\ message = NoErrorText(Shown)
                    /\ \E c0 \in 1..Len(calls) :
                          /\ c < c0 /\ calls[c0].sid = Shown /\ calls[c0].st = "fulfilled"
                          /\ calls[c0].value = inputValue /\ ValidateInput(inputValue) = "") =>
                       w.message = message

C29_StaleReadinessIgnored ==
    /\ \A s \in Sessions :
          (sess[s].api = "show" /\ sess[s].picks = "pending" /\ controller # s) =>
              LET w == PicksDelivered(World, s)
              IN  w.ready = ready /\ w.progress = progress
    /\ ready =>
          /\ controller # 0
          /\ sess[controller].type = "textInput" \/ sess[controller].picks = "delivered"

\* The list of a superseded session has been delivered while the list of the
\* service's controller is still awaited: the service is not ready.
C29_Witness ==
    /\ controller = 2 /\ sess[2].picks = "pending"
    /\ sess[1].api = "show" /\ sess[1].picks = "delivered" /\ sess[1].closed
    /\ ~ready

\* C30: pick() and input() called with a token that is already cancelled
\* fulfil the promise they return with undefined and change nothing: no
\* session is created, the sessions that exist, the container and the rest of
\* the UI are as before.
C30_CancelledTokenNoUI ==
    /\ \A many \in BOOLEAN :
          LET w == PickCancelled(World, many)
          IN  w.returned = "undefined" /\ [w EXCEPT !.returned = "none"] = World
    /\ \A validator \in BOOLEAN, text \in InitialValues :
          LET w == InputCancelled(World, validator, text)
          IN  w.returned = "undefined" /\ [w EXCEPT !.returned = "none"] = World

\* A session of pick() is displayed and unsettled when pick() is called with a
\* cancelled token, and still is after the call.
C30_Witness ==
    /\ controller2 # 0 /\ Active(controller2) /\ sess[controller2].visible /\ displayed
    /\ PickCancelled(World, FALSE).sess = sess
    /\ PickCancelled(World, FALSE).displayed

\* C31: a QuickPick or InputBox whose visible flag is true is the service's
\* controller2 and the container is displayed; so no session of pick() or
\* input() is left visible when the container is hidden.
C31_VisibleIsCurrentAndDisplayed ==
    \A s \in 1..Len(sess) :
        sess[s].visible => (controller2 = s /\ displayed)

\* C32: when the validation started by confirming a text input completes after
\* a later session has superseded that text input, the later session, displayed
\* and unsettled, is still displayed and unsettled.
C32_LateConfirmKeepsSuccessor ==
    \A c \in 1..Len(calls) :
        (/\ calls[c].st = "pending" /\ "confirm" \in calls[c].cbs
         /\ calls[c].sid < Shown /\ sess[calls[c].sid].type = "textInput"
         /\ Active(Shown) /\ displayed) =>
            LET w == ValidatorCompleted(World, c)
            IN  w.displayed /\ w.sess[Shown].result = "pending"

\* C33: while the candidate list of the displayed pickOne or pickMany session
\* of show() is not delivered, or the ready flag is not set, none of the Enter
\* key, the OK button and accept() settles the session.
C33_NoConfirmBeforeReady ==
    (/\ controller # 0 /\ displayed /\ Active(controller)
     /\ sess[controller].type \in {"pickOne", "pickMany"}
     /\ (sess[controller].picks = "pending" \/ ~ready)) =>
        \A w \in {OnEnter(World), OnOkClick(World), ServiceAccept(World)} :
            w.sess[controller].result = "pending"

\* C34: the context key 'inQuickOpen' is true exactly when the container is
\* displayed or the quick-open widget is shown, and the entry 'quickInput' is
\* registered exactly while the container is displayed: every handler that
\* displays the container registers it, every hide removes it.
C34_ContextKeyTracksWidgets ==
    /\ inQuickOpenContext = (displayed \/ quickOpen)
    /\ ("quickInput" \in inQuickOpenWidgets) = displayed
    /\ ("quickOpen" \in inQuickOpenWidgets) = quickOpen

\* The quick-open widget was shown while a session was displayed and the
\* container was hidden by it: the key is still true, for the widget alone.
C34_Witness ==
    /\ quickOpen /\ ~displayed /\ Len(sess) > 0
    /\ inQuickOpenContext /\ inQuickOpenWidgets = {"quickOpen"}

\* C35: when the focus leaves the container while the displayed, unsettled
\* session was started with ignoreFocusLost, the session stays displayed and
\* unsettled; when it was started without and close-on-focus-lost is
\* configured, the container is hidden, the session is fulfilled with undefined
\* and the editor group is not focused.
C35_FocusLossHonoursFlag ==
    (displayed /\ Shown > 0 /\ Active(Shown)) =>
        \A closeOnFocusLost \in BOOLEAN :
            LET w == FocusOut(World, closeOnFocusLost)
            IN  /\ sess[Shown].ignoreFocusOut =>
                      (w.displayed /\ w.sess[Shown].result = "pending")
                /\ (~sess[Shown].ignoreFocusOut /\ closeOnFocusLost) =>
                      (~w.displayed /\ Cancelled(w.sess[Shown]) /\ w.groupFocus = 0)

\* C36: when the POST request made on Enter ends, the editor is opened for the
\* new file only if the request created it; and in every outcome of the
\* request, on Escape, and on a blur of the enabled input while the entry is
\* pending, newEntryParentUri is null afterwards and the parent folder has been
\* refreshed.
C36_EditorOnlyAfterCreated ==
    /\ \A p \in 1..Len(posts), outcome \in Outcomes :
          posts[p].st = "pending" =>
              LET w == PostCompleted(Explorer, p, outcome)
              IN  /\ outcome # "created" => w.editors = editors
                  /\ w.newEntryParentUri = Null
                  /\ element.parent \in w.refreshed
    /\ (entryShown /\ ~input.disabled) =>
          LET w == EntryEscape(Explorer)
          IN  w.newEntryParentUri = Null /\ element.parent \in w.refreshed
    /\ (entryShown /\ ~input.disabled /\ newEntryParentUri # Null) =>
          LET w == EntryBlur(Explorer)
          IN  w.newEntryParentUri = Null /\ element.parent \in w.refreshed

\* C37: through an IssueChannelClient wired to an IssueChannel, openReporter,
\* openProcessExplorer and getSystemInfo do what the service's method of the
\* same name does: the service receives exactly one more call, of that method
\* with the same argument, and the client returns the service's result; a
\* channel call with any other command reaches no method of the service.
C37_ClientIsService ==
    /\ \A data \in IssueData :
          /\ ClientOpenReporter(Issue, data) = ServiceOpenReporter(Issue, data)
          /\ ClientOpenReporter(Issue, data).log =
                 Append(issueLog, [method |-> "openReporter", arg |-> data])
          /\ ClientOpenProcessExplorer(Issue, data) = ServiceOpenProcessExplorer(Issue, data)
          /\ ClientOpenProcessExplorer(Issue, data).log =
                 Append(issueLog, [method |-> "openProcessExplorer", arg |-> data])
    /\ ClientGetSystemInfo(Issue) = ServiceGetSystemInfo(Issue)
    /\ ClientGetSystemInfo(Issue).log =
           Append(issueLog, [method |-> "getSystemInfo", arg |-> IssueUndefined])
    /\ \A command \in Commands, arg \in IssueData \cup {IssueUndefined} :
          command \notin {"openIssueReporter", "openProcessExplorer", "getSystemInfo"} =>
              ChannelCall(Issue, command, arg).log = issueLog

\* The client has made the three calls, the last one openProcessExplorer, and
\* holds the result the service gave for it.
C37_Witness ==
    /\ Len(issueLog) = 3
    /\ {issueLog[i].method : i \in 1..3} =
           {"openReporter", "openProcessExplorer", "getSystemInfo"}
    /\ issueLog[3] = [method |-> "openProcessExplorer", arg |-> "d2"]
    /\ issueReturned = ServiceResult("openProcessExplorer", "d2")

=============================================================================
